---------------------------- MODULE Spec2Model ----------------------------
(***************************************************************************)
(* State-machine model of the LangGraph tutorial applications:             *)
(*                                                                         *)
(*   - Feedback-Driven_Blog_Agent (main.py / app.py): the refinement       *)
(*     workflow outline_node -> blog_node -> score_node -> blog_optimizer. *)
(*   - Chatbot/main.py: calculator_tool and the other chatbot tools, and   *)
(*     the chat_node / tools graph.                                        *)
(*   - stock_market_agent/app.py: the buy/sell tools with their            *)
(*     interrupt(), the agent / tools graph and the Streamlit handlers.    *)
(*                                                                         *)
(* Conventions.                                                            *)
(*   - A formatted string (an f-string) is a tuple <<template, arg, ...>>: *)
(*     the template text with {} for every interpolated value, followed by *)
(*     the interpolated values.  A plain string is <<text>>.               *)
(*   - A float score is an integer number of tenths (7.0 is 70).           *)
(*   - Prices are integers (total_price 50 is $50).                        *)
(*   - The output of a model call (llm.invoke) is a nondeterministic       *)
(*     choice from a small set.                                            *)
(***************************************************************************)
EXTENDS Integers, Sequences, FiniteSets, TLC

VARIABLES
    \* ---- Feedback-Driven_Blog_Agent ----
    bstate,       \* BlogState: a function from the keys present to their values
    bnode,        \* the node the engine runs next; "END"; "raised"
    route,        \* the last value blog_optimizer returned ("" before any)
    prompt,       \* the prompt of the most recent llm / judge call
    n_outline,    \* runs of create_outline
    n_draft,      \* runs of create_blog
    n_score,      \* runs of score_blog
    unwritten_read, \* fields the last step read that no step had written
    \* ---- Chatbot: calculator_tool as a function ----
    expression,   \* the argument of calculator_tool
    calc,         \* "" before the call, then what calculator_tool did
    \* ---- conversational graphs (stock agent, chatbot) ----
    app,          \* "stock" | "chatbot" | "none"
    messages,     \* the checkpointed messages channel of the thread
    next_node,    \* checkpoint's next node: "agent" | "tools" | "END"
    running,      \* the handler whose app.invoke is in progress, or "idle"
    interrupt_q,  \* <<>> or <<question>>: the interrupt the thread waits on
    asked,        \* the questions the pending assistant message's calls raised
    resume,       \* resume values already given to the pending tools task
    null_resume,  \* <<>> or <<v>>: the value of Command(resume=v), not yet used
    tool_runs,    \* per tool call of the last assistant message: times run
    tool_out,     \* per tool call of the last tools step: what the call did
    agent_runs,   \* runs of the agent step
    n_inputs,     \* user messages submitted
    raised,       \* the last app.invoke ended with an exception
    thread_id,    \* config["configurable"]["thread_id"] of the session
    checkpoints,  \* the checkpointer: the checkpoints written, oldest first
    \* ---- Chatbot: requests in progress at the same time ----
    reqs,         \* per request: its position and the state it works on
    \* ---- stock agent: st.session_state ----
    chat_history,
    awaiting_decision,
    pending_response

blogVars == <<bstate, bnode, route, prompt, n_outline, n_draft, n_score,
              unwritten_read>>
calcVars == <<expression, calc>>
graphVars == <<app, messages, next_node, running, interrupt_q, asked, resume,
               null_resume, tool_runs, tool_out, agent_runs, n_inputs, raised,
               thread_id, checkpoints>>
concVars == <<reqs>>
uiVars == <<chat_history, awaiting_decision, pending_response>>
vars == <<blogVars, calcVars, graphVars, uiVars, concVars>>

---------------------------------------------------------------------------
(* Bounds of the model. *)

\* draft/score cycles explored in one run (the source sets no ceiling)
MaxCycles == 3
\* characters of a calculator expression
MaxExprLen == 3
\* user messages submitted in one session
MaxInputs == 2
\* agent steps in one session
MaxAgentRuns == 3
\* agent steps of one of the requests that run at the same time
MaxRequestRuns == 1

---------------------------------------------------------------------------
(* Helpers on sequences and functions. *)

Last(s) == s[Len(s)]

Range(s) == {s[i] : i \in DOMAIN s}

\* dict[key] = value
Put(d, key, value) ==
    [k \in DOMAIN d \cup {key} |-> IF k = key THEN value ELSE d[k]]

\* dict.get(key, default)
Get(d, key, default) == IF key \in DOMAIN d THEN d[key] ELSE default

---------------------------------------------------------------------------
(* Feedback-Driven_Blog_Agent: state, nodes, router, graph.                *)
(* main.py and app.py define the same nodes and the same graph.            *)

\* blog_optimizer's threshold 7.0, in tenths
Threshold == 70
\* BlogEvaluation.score: Field(ge=0.0, le=10.0), in tenths
ScoreMin == 0
ScoreMax == 100

Topics == {"Cats vs Dogs: Which Pet Is Better?", "AI"}
\* what llm.invoke(prompt).content can be
OutlineTexts == {"outline A", "outline B"}
BlogTexts == {"draft A", "draft B"}
\* what the judge model can put in the score and feedback fields
JudgeScores == {0, 55, 69, 70, 71, 80, 100, 105}
Feedbacks == {"", "add more examples", "shorten the intro"}

\* app.py, Quality Report tab: score >= 8 and score >= 7, in tenths
QualityHigh == 80
QualityGood == 70

\* the score indicator of the Quality Report tab
quality_indicator(score) ==
    IF score >= QualityHigh THEN "High Quality Blog"
    ELSE IF score >= QualityGood THEN "Good Quality Blog"
    ELSE "Acceptable Quality"

\* with_structured_output(BlogEvaluation): pydantic accepts the judge's output
Validates(score) == ScoreMin <= score /\ score <= ScoreMax

blog_optimizer_inverted(state) ==
    IF state["blog_score"] > Threshold THEN "optimize blog" ELSE "end"

blog_optimizer_inclusive(state) ==
    IF state["blog_score"] <= Threshold THEN "optimize blog" ELSE "end"

blog_optimizer(state) ==
    IF state["blog_score"] < Threshold THEN "optimize blog" ELSE "end"

path_map_rescore(label) ==
    CASE label = "optimize blog" -> "score_node"
      [] label = "end" -> "END"

\* path_map of graph.add_conditional_edges(source="score_node", ...)
path_map(label) ==
    CASE label = "optimize blog" -> "blog_node"
      [] label = "end" -> "END"

fields_read_score_reads_feedback(node) ==
    CASE node = "outline_node" -> {"topic"}
      [] node = "blog_node" -> {"outline", "feedback"}
      [] node = "score_node" -> {"outline", "final_blog", "feedback"}
      [] node = "blog_optimizer" -> {"blog_score"}

\* the fields of BlogState each node function and the router read:
\* state['topic']; state["outline"], state.get("feedback", "");
\* state['outline'], state['final_blog']; state["blog_score"]
fields_read(node) ==
    CASE node = "outline_node" -> {"topic"}
      [] node = "blog_node" -> {"outline", "feedback"}
      [] node = "score_node" -> {"outline", "final_blog"}
      [] node = "blog_optimizer" -> {"blog_score"}

\* the fields `node` reads that are not in the state it is given
Unwritten(node, state) == fields_read(node) \ DOMAIN state

outline_prompt(state) ==
    <<"Create a detailed blog outline on: {}", state["topic"]>>

blog_prompt_ignores_feedback(state) ==
    <<"Write a detailed blog based on this outline: {}", state["outline"]>>

blog_prompt(state) ==
    LET outline == state["outline"]
        feedback == Get(state, "feedback", "")
    IN  IF feedback # ""
        THEN <<"Improve the blog using this feedback: Feedback: {} Blog outline: {} Rewrite the blog better.",
               feedback, outline>>
        ELSE <<"Write a detailed blog based on this outline: {}", outline>>

score_prompt(state) ==
    <<"Evaluate the blog based on how well it follows the outline. Outline: {} Blog: {} Return JSON only",
      state["outline"], state["final_blog"]>>

\* graph.add_edge(START, "outline_node"); app.invoke({"topic": ...})
BlogInvoked ==
    /\ bstate \in {[topic |-> t] : t \in Topics}
    /\ bnode = "outline_node"
    /\ route = ""
    /\ prompt = <<>>
    /\ n_outline = 0
    /\ n_draft = 0
    /\ n_score = 0
    /\ unwritten_read = {}

BlogIdle ==
    /\ bstate = <<>>
    /\ bnode = "idle"
    /\ route = ""
    /\ prompt = <<>>
    /\ n_outline = 0
    /\ n_draft = 0
    /\ n_score = 0
    /\ unwritten_read = {}

\* outline_node, then the edge outline_node -> blog_node
create_outline ==
    /\ bnode = "outline_node"
    /\ \E text \in OutlineTexts :
          /\ prompt' = outline_prompt(bstate)
          /\ bstate' = Put(bstate, "outline", text)
    /\ bnode' = "blog_node"
    /\ n_outline' = n_outline + 1
    /\ unwritten_read' = Unwritten("outline_node", bstate)
    /\ UNCHANGED <<route, n_draft, n_score>>
    /\ UNCHANGED <<calcVars, graphVars, uiVars, concVars>>

create_blog_clears_feedback ==
    /\ bnode = "blog_node"
    /\ n_draft < MaxCycles
    /\ \E text \in BlogTexts :
          /\ prompt' = blog_prompt(bstate)
          /\ bstate' = Put(Put(bstate, "final_blog", text), "feedback", "")
    /\ bnode' = "score_node"
    /\ n_draft' = n_draft + 1
    /\ unwritten_read' = Unwritten("blog_node", bstate)
    /\ UNCHANGED <<route, n_outline, n_score>>
    /\ UNCHANGED <<calcVars, graphVars, uiVars, concVars>>

\* blog_node, then the edge blog_node -> score_node
create_blog ==
    /\ bnode = "blog_node"
    /\ n_draft < MaxCycles
    /\ \E text \in BlogTexts :
          /\ prompt' = blog_prompt(bstate)
          /\ bstate' = Put(bstate, "final_blog", text)
    /\ bnode' = "score_node"
    /\ n_draft' = n_draft + 1
    /\ unwritten_read' = Unwritten("blog_node", bstate)
    /\ UNCHANGED <<route, n_outline, n_score>>
    /\ UNCHANGED <<calcVars, graphVars, uiVars, concVars>>

\* score_node, then the conditional edge: blog_optimizer and its path_map.
\* A judge output that BlogEvaluation rejects raises out of app.invoke.
score_blog ==
    /\ bnode = "score_node"
    /\ prompt' = score_prompt(bstate)
    /\ n_score' = n_score + 1
    /\ \E score \in JudgeScores, feedback \in Feedbacks :
          IF Validates(score)
          THEN LET state == Put(Put(bstate, "blog_score", score),
                                "feedback", feedback)
               IN  /\ bstate' = state
                   /\ route' = blog_optimizer(state)
                   /\ bnode' = path_map(blog_optimizer(state))
                   /\ unwritten_read' = Unwritten("score_node", bstate)
                                           \cup Unwritten("blog_optimizer", state)
          ELSE /\ bnode' = "raised"
               /\ unwritten_read' = Unwritten("score_node", bstate)
               /\ UNCHANGED <<bstate, route>>
    /\ UNCHANGED <<n_outline, n_draft>>
    /\ UNCHANGED <<calcVars, graphVars, uiVars, concVars>>

---------------------------------------------------------------------------
(* Chatbot/main.py: calculator_tool.  eval(expression) is modelled on      *)
(* expressions over the characters 1 2 + % a: Python's tokenizer, the      *)
(* grammar of + (unary and binary) and %, and the lookup of names (no      *)
(* name made of the letter a and digits is defined in the module).         *)

Chars == {"1", "2", "+", "%", "a"}

RECURSIVE StringsOfLen(_)
StringsOfLen(n) ==
    IF n = 0 THEN {<<>>}
    ELSE {Append(s, c) : s \in StringsOfLen(n - 1), c \in Chars}

Expressions == UNION {StringsOfLen(n) : n \in 0..MaxExprLen}

\* the characters an arithmetic expression may contain: [0-9+-*/(). ]
ArithmeticChars ==
    {"0", "1", "2", "3", "4", "5", "6", "7", "8", "9",
     "+", "-", "*", "/", "(", ")", ".", " "}

IsDigit(c) == c \in {"1", "2"}
DigitValue(c) == IF c = "1" THEN 1 ELSE 2

\* Python's tokenizer: a token is <<kind, value>>, kind in num, name, +, %,
\* bad (a digit directly followed by a letter: invalid decimal literal).
RECURSIVE Lex(_, _, _)
Lex(s, i, acc) ==
    IF i > Len(s) THEN acc
    ELSE LET c == s[i]
             prev == IF acc = <<>> THEN "" ELSE Last(acc)[1]
             front == SubSeq(acc, 1, Len(acc) - 1)
         IN  IF IsDigit(c)
             THEN IF prev = "num"
                  THEN Lex(s, i + 1,
                           Append(front, <<"num", Last(acc)[2] * 10 + DigitValue(c)>>))
                  ELSE IF prev \in {"name", "bad"}
                  THEN Lex(s, i + 1, acc)
                  ELSE Lex(s, i + 1, Append(acc, <<"num", DigitValue(c)>>))
             ELSE IF c = "a"
             THEN IF prev = "num"
                  THEN Lex(s, i + 1, Append(front, <<"bad", 0>>))
                  ELSE IF prev \in {"name", "bad"}
                  THEN Lex(s, i + 1, acc)
                  ELSE Lex(s, i + 1, Append(acc, <<"name", 0>>))
             ELSE Lex(s, i + 1, Append(acc, <<c, 0>>))

Tokens(s) == Lex(s, 1, <<>>)

IsAtom(tok) == tok[1] \in {"num", "name"}

\* compile(expression, "eval"): operands separated by binary operators, any
\* number of unary + before an operand
Parses(ts) ==
    /\ Len(ts) > 0
    /\ \A i \in DOMAIN ts : ts[i][1] # "bad"
    /\ IsAtom(Last(ts))
    /\ \A i \in DOMAIN ts :
          ts[i][1] = "%" => (i > 1 /\ IsAtom(ts[i - 1]))

\* the value of a parsed expression without names: % binds tighter than
\* binary +, both associate to the left
RECURSIVE Fold(_, _, _, _, _)
Fold(ts, i, sum, cur, op) ==
    IF i > Len(ts) THEN sum + cur
    ELSE LET tok == ts[i] IN
         IF tok[1] = "num"
         THEN IF op = "%"
              THEN Fold(ts, i + 1, sum, cur % tok[2], "+")
              ELSE Fold(ts, i + 1, sum + cur, tok[2], "+")
         ELSE IF tok[1] = "%"
         THEN Fold(ts, i + 1, sum, cur, "%")
         ELSE Fold(ts, i + 1, sum, cur, op)

\* eval(expression): raises SyntaxError, raises NameError, or returns a value
Eval(s) ==
    LET ts == Tokens(s)
    IN  IF ~Parses(ts) THEN [outcome |-> "SyntaxError", value |-> 0]
        ELSE IF \E i \in DOMAIN ts : ts[i][1] = "name"
        THEN [outcome |-> "NameError", value |-> 0]
        ELSE [outcome |-> "value", value |-> Fold(ts, 1, 0, 0, "+")]

\* calculator_tool: what it returns, and whether the expression was
\* executed (it compiled and eval ran it)
calculator_tool(s) ==
    LET r == Eval(s)
    IN  [called |-> TRUE,
         evaluated |-> r.outcome # "SyntaxError",
         result |-> IF r.outcome = "value"
                    THEN <<"{}", r.value>>
                    ELSE <<"Error in calculation: {}", r.outcome>>]

CalcIdle ==
    /\ expression = <<>>
    /\ calc = [called |-> FALSE, evaluated |-> FALSE, result |-> <<>>]

CalcInit ==
    /\ expression \in Expressions
    /\ calc = [called |-> FALSE, evaluated |-> FALSE, result |-> <<>>]

CallCalculator ==
    /\ ~calc.called
    /\ calc' = calculator_tool(expression)
    /\ UNCHANGED expression
    /\ UNCHANGED <<blogVars, graphVars, uiVars, concVars>>

---------------------------------------------------------------------------
(* Tools of the stock agent and of the chatbot.  A tool call gives         *)
(* [kind, value, answer]: kind "returned" (value is the result),           *)
(* "interrupt" (value is the question of interrupt()), or "raised" (an     *)
(* exception leaves the tool); answer is what interrupt() returned to the  *)
(* call, "" when it returned nothing.  The status emoji that starts some   *)
(* of the source's messages is left out of the templates.                  *)

Returned(value) == [kind |-> "returned", value |-> value, answer |-> ""]
Interrupt(question) == [kind |-> "interrupt", value |-> question, answer |-> ""]
Raised(error) == [kind |-> "raised", value |-> <<error>>, answer |-> ""]

\* str.lower() on the answers a resume can carry
Lower(s) ==
    CASE s = "YES" -> "yes"
      [] s = "Yes" -> "yes"
      [] s = "NO" -> "no"
      [] s = "No" -> "no"
      [] OTHER -> s

\* str.upper().strip() on ticker symbols
UpperStrip(s) ==
    CASE s = "tsla" -> "TSLA"
      [] s = " tsla " -> "TSLA"
      [] OTHER -> s

\* what yfinance can do for a symbol and period
Backends == {"price", "empty", "exception"}

\* get_stock_price: every outcome of the lookup is returned, none raised
get_stock_price(ticker_symbol, period, backend) ==
    LET symbol == UpperStrip(ticker_symbol)
    IN  CASE backend = "price" -> Returned(<<"{}", 250>>)
          [] backend = "empty" ->
                Returned(<<"Error: No data found for symbol '{}'. Check if the ticker is correct.",
                           symbol>>)
          [] backend = "exception" ->
                Returned(<<"An error occurred: {}", "yfinance error">>)

buy_question(ticker_symbol, quantity, total_price) ==
    <<"Do you want to buy {} shares of {} for ${}? (yes/no)",
      quantity, ticker_symbol, total_price>>

sell_question(ticker_symbol, quantity, total_price) ==
    <<"Do you want to sell {} shares of {} for ${}? (yes/no)",
      quantity, ticker_symbol, total_price>>

\* answers: <<>> when interrupt() has no resume value for this call (it
\* raises the interrupt), <<v>> when it returns v
buy_stocks_allows_zero(ticker_symbol, quantity, total_price, answers) ==
    IF quantity < 0
    THEN Returned(<<"Error: Quantity must be positive">>)
    ELSE IF total_price < 0
    THEN Returned(<<"Error: Total price must be positive">>)
    ELSE IF answers = <<>>
    THEN Interrupt(buy_question(ticker_symbol, quantity, total_price))
    ELSE IF Lower(answers[1]) = "yes"
    THEN [Returned(<<"You bought {} shares of {} for ${}.",
                     quantity, ticker_symbol, total_price>>)
            EXCEPT !.answer = answers[1]]
    ELSE [Returned(<<"Transaction cancelled.">>) EXCEPT !.answer = answers[1]]

buy_stocks_unconfirmed(ticker_symbol, quantity, total_price, answers) ==
    IF quantity <= 0
    THEN Returned(<<"Error: Quantity must be positive">>)
    ELSE IF total_price <= 0
    THEN Returned(<<"Error: Total price must be positive">>)
    ELSE Returned(<<"You bought {} shares of {} for ${}.",
                    quantity, ticker_symbol, total_price>>)

buy_stocks_wrong_quantity(ticker_symbol, quantity, total_price, answers) ==
    IF quantity <= 0
    THEN Returned(<<"Error: Quantity must be positive">>)
    ELSE IF total_price <= 0
    THEN Returned(<<"Error: Total price must be positive">>)
    ELSE IF answers = <<>>
    THEN Interrupt(buy_question(ticker_symbol, quantity, total_price))
    ELSE IF Lower(answers[1]) = "yes"
    THEN [Returned(<<"You bought {} shares of {} for ${}.",
                     total_price, ticker_symbol, quantity>>)
            EXCEPT !.answer = answers[1]]
    ELSE [Returned(<<"Transaction cancelled.">>) EXCEPT !.answer = answers[1]]

buy_stocks(ticker_symbol, quantity, total_price, answers) ==
    IF quantity <= 0
    THEN Returned(<<"Error: Quantity must be positive">>)
    ELSE IF total_price <= 0
    THEN Returned(<<"Error: Total price must be positive">>)
    ELSE IF answers = <<>>
    THEN Interrupt(buy_question(ticker_symbol, quantity, total_price))
    ELSE IF Lower(answers[1]) = "yes"
    THEN [Returned(<<"You bought {} shares of {} for ${}.",
                     quantity, ticker_symbol, total_price>>)
            EXCEPT !.answer = answers[1]]
    ELSE [Returned(<<"Transaction cancelled.">>) EXCEPT !.answer = answers[1]]

sell_stocks(ticker_symbol, quantity, total_price, answers) ==
    IF quantity <= 0
    THEN Returned(<<"Error: Quantity must be positive">>)
    ELSE IF total_price <= 0
    THEN Returned(<<"Error: Total price must be positive">>)
    ELSE IF answers = <<>>
    THEN Interrupt(sell_question(ticker_symbol, quantity, total_price))
    ELSE IF Lower(answers[1]) = "yes"
    THEN [Returned(<<"You sold {} shares of {} for ${}.",
                     quantity, ticker_symbol, total_price>>)
            EXCEPT !.answer = answers[1]]
    ELSE [Returned(<<"Transaction cancelled.">>) EXCEPT !.answer = answers[1]]

\* get_current_datetime (stock agent), get_date_time (chatbot)
get_current_datetime == Returned(<<"%Y-%m-%d %H:%M:%S">>)
get_date_time == Returned(<<"%Y-%m-%d %H:%M:%S">>)

\* what the DuckDuckGo backend can do
SearchBackends == {"results", "failure"}

\* search_web: search.run(query) is not guarded, a backend failure raises
search_web(query, backend) ==
    IF backend = "results"
    THEN Returned(<<"search results for {}", query>>)
    ELSE Raised("DuckDuckGoSearchException")

---------------------------------------------------------------------------
(* The two conversational graphs.                                          *)
(*   stock agent: START -> agent, agent -> tools_condition, tools -> agent *)
(*   chatbot:     START -> chat_node, chat_node -> tools_condition,        *)
(*                tools -> chat_node, chat_node -> END                     *)
(* A message is [type, content, tool_calls]; a tool call is                *)
(* <<tool name, argument, ...>>.                                           *)

END == "__end__"

AgentNode(a) == IF a = "chatbot" THEN "chat_node" ELSE "agent"

\* graph.add_edge(...)
Edges(a) ==
    IF a = "chatbot"
    THEN {<<"START", "chat_node">>, <<"tools", "chat_node">>, <<"chat_node", END>>}
    ELSE {<<"START", "agent">>, <<"tools", "agent">>}

\* langgraph.prebuilt.tools_condition on the last message
tools_condition(msgs) ==
    IF Len(Last(msgs).tool_calls) > 0 THEN "tools" ELSE END

\* the nodes a finished node triggers: the targets of its edges and, for
\* the agent node, of its conditional edge; an edge to END triggers nothing
Triggered_end_edge_wins(a, node, msgs) ==
    LET direct == {e[2] : e \in {d \in Edges(a) : d[1] = node}}
        branch == IF node = AgentNode(a) THEN {tools_condition(msgs)} ELSE {}
    IN  IF END \in direct THEN {} ELSE (direct \cup branch) \ {END}

Triggered(a, node, msgs) ==
    LET direct == {e[2] : e \in {d \in Edges(a) : d[1] = node}}
        branch == IF node = AgentNode(a) THEN {tools_condition(msgs)} ELSE {}
    IN  (direct \cup branch) \ {END}

\* the node that runs after `node`, END when none is triggered
NextNode(a, node, msgs) ==
    IF Triggered(a, node, msgs) = {} THEN END
    ELSE CHOOSE n \in Triggered(a, node, msgs) : TRUE

Human(text) == [type |-> "human", content |-> <<text>>, tool_calls |-> <<>>]
AI(content, calls) == [type |-> "ai", content |-> content, tool_calls |-> calls]
ToolMessage(out) == [type |-> "tool", content |-> out.value, tool_calls |-> <<>>]

UserTexts == {"buy 2 shares of Tesla"}

Tickers == {"TSLA"}
\* <<quantity, total_price>> of a buy / sell call: valid, each argument at
\* the boundary 0 with the other valid, and both negative
TradeArgs == {<<2, 50>>, <<0, 50>>, <<2, 0>>, <<-1, -5>>}

PriceCall == <<"get_stock_price", "TSLA", "1d">>
BuyCall == <<"buy_stocks", "TSLA", 2, 50>>
SellCall == <<"sell_stocks", "TSLA", 2, 50>>

\* the tool calls the model can request (tools = [...] bound to the llm)
StockCalls ==
    {<<tool, t, qp[1], qp[2]>> : tool \in {"buy_stocks", "sell_stocks"},
                                 t \in Tickers, qp \in TradeArgs}
    \cup {PriceCall, <<"get_current_datetime">>}

ChatbotCalls ==
    {<<"search_web", "news">>, <<"get_date_time">>,
     <<"calculator_tool", <<"1", "+", "2">>>>, <<"calculator_tool", <<"a">>>>}

\* the tool_calls of one assistant message: none, one call, or two calls
CallLists(a) ==
    IF a = "chatbot"
    THEN {<<c>> : c \in ChatbotCalls}
         \cup {<<<<"search_web", "news">>, <<"get_date_time">>>>}
    ELSE {<<c>> : c \in StockCalls}
         \cup {<<c, SellCall>> : c \in {PriceCall, BuyCall}}

\* what llm.invoke(messages) can return
Responses(a) ==
    {AI(<<"final answer">>, <<>>)} \cup {AI(<<"">>, cl) : cl \in CallLists(a)}

\* ToolNode: the call of one tool by name
RunTool(call, backend, answers) ==
    CASE call[1] = "get_stock_price" -> get_stock_price(call[2], call[3], backend)
      [] call[1] = "buy_stocks" -> buy_stocks(call[2], call[3], call[4], answers)
      [] call[1] = "sell_stocks" -> sell_stocks(call[2], call[3], call[4], answers)
      [] call[1] = "get_current_datetime" -> get_current_datetime
      [] call[1] = "search_web" -> search_web(call[2], backend)
      [] call[1] = "get_date_time" -> get_date_time
      [] call[1] = "calculator_tool" -> Returned(calculator_tool(call[2]).result)

BackendsOf(call) ==
    CASE call[1] = "get_stock_price" -> Backends
      [] call[1] = "search_web" -> SearchBackends
      [] OTHER -> {"none"}

BackendChoices(calls) ==
    {bk \in [DOMAIN calls -> Backends \cup SearchBackends \cup {"none"}] :
        \A i \in DOMAIN calls : bk[i] \in BackendsOf(calls[i])}

\* the call reaches interrupt()
CallsInterrupt(call) ==
    \E b \in BackendsOf(call) : RunTool(call, b, <<>>).kind = "interrupt"

\* interrupt() matches resume values to the interrupts of one task by the
\* order in which the task reaches them
InterruptIndex(calls, i) ==
    1 + Cardinality({j \in 1..(i - 1) : CallsInterrupt(calls[j])})

AnswersFor(calls, i, values) ==
    IF InterruptIndex(calls, i) <= Len(values)
    THEN <<values[InterruptIndex(calls, i)]>>
    ELSE <<>>

\* ToolNode runs every tool call of the last assistant message
ToolOutcomes(calls, bk, values) ==
    [i \in DOMAIN calls |-> RunTool(calls[i], bk[i], AnswersFor(calls, i, values))]

FirstOfKind(outs, kind) ==
    CHOOSE i \in DOMAIN outs :
        /\ outs[i].kind = kind
        /\ \A j \in 1..(i - 1) : outs[j].kind # kind

\* ToolNode(handle_tool_errors=True): the exception as the tool's message
HandledError(out) ==
    IF out.kind = "raised"
    THEN Returned(<<"Error: {} Please fix your mistakes.", out.value[1]>>)
    ELSE out

---------------------------------------------------------------------------
(* Streamlit handlers of the stock agent and the steps of app.invoke.      *)
(* A handler runs app.invoke to its end or to a suspension before any      *)
(* other widget event is handled: while running # "idle" only the steps    *)
(* of the graph are enabled, and the step that ends the run also does the  *)
(* handler's updates of st.session_state.                                  *)

UserEntry(text) == [type |-> "user", content |-> <<text>>]
AgentEntry(content) == [type |-> "agent", content |-> content]

add_messages_overwrite(left, right) == right

\* messages: Annotated[list[BaseMessage], add_messages]: the reducer of the
\* messages channel appends what a step returns (every message is new)
add_messages(left, right) == left \o right

\* the thread ids a session can run under ("thread_1" is the stock agent's)
ThreadIds == {"thread_1", "thread_2"}

\* checkpointer.put: a run saves the state of its thread after the input
\* and after every completed step, as one more checkpoint of the thread
checkpointer_put(config, msgs, next) ==
    checkpoints' = Append(checkpoints, [thread_id |-> config,
                                        messages |-> msgs, next_node |-> next])

\* checkpointer.get_tuple(config): the newest checkpoint of the thread, the
\* empty state when the thread has none
checkpointer_get(rows, config) ==
    LET mine == {i \in DOMAIN rows : rows[i].thread_id = config}
    IN  IF mine = {}
        THEN [thread_id |-> config, messages |-> <<>>, next_node |-> END]
        ELSE rows[CHOOSE i \in mine : \A j \in mine : j <= i]

\* the thread has a pending interrupt: the checkpoint's next node is tools
Suspended == running = "idle" /\ next_node = "tools" /\ interrupt_q # <<>>

HandlerReturns_keeps_pending(handler, msgs, intr) ==
    CASE handler = "input" ->
            /\ chat_history' = Append(chat_history, AgentEntry(Last(msgs).content))
            /\ IF intr # <<>>
               THEN /\ awaiting_decision' = TRUE
                    /\ pending_response' = <<[messages |-> msgs, interrupt |-> intr]>>
               ELSE UNCHANGED <<awaiting_decision, pending_response>>
      [] handler \in {"yes", "no"} ->
            /\ chat_history' = Append(chat_history, AgentEntry(Last(msgs).content))
            /\ awaiting_decision' = FALSE
            /\ UNCHANGED pending_response
      [] OTHER -> UNCHANGED uiVars

\* the code after app.invoke returns: the user-input handler (the
\* __interrupt__ check) and the Yes / No handlers
HandlerReturns(handler, msgs, intr) ==
    CASE handler = "input" ->
            /\ chat_history' = Append(chat_history, AgentEntry(Last(msgs).content))
            /\ IF intr # <<>>
               THEN /\ awaiting_decision' = TRUE
                    /\ pending_response' = <<[messages |-> msgs, interrupt |-> intr]>>
               ELSE UNCHANGED <<awaiting_decision, pending_response>>
      [] handler \in {"yes", "no"} ->
            /\ chat_history' = Append(chat_history, AgentEntry(Last(msgs).content))
            /\ awaiting_decision' = FALSE
            /\ pending_response' = <<>>
      [] OTHER -> UNCHANGED uiVars

\* app.invoke({"messages": [user message]}, config): add_messages appends
\* the message, a pending task of the thread is dropped, the run starts at
\* the START edge
InvokeInput(handler, text) ==
    /\ messages' = add_messages(messages, <<Human(text)>>)
    /\ next_node' = NextNode(app, "START", messages')
    /\ running' = handler
    /\ interrupt_q' = <<>>
    /\ resume' = <<>>
    /\ null_resume' = <<>>
    /\ raised' = FALSE
    /\ n_inputs' = n_inputs + 1
    /\ checkpointer_put(thread_id, messages', next_node')
    /\ UNCHANGED <<app, asked, tool_runs, tool_out, agent_runs, thread_id>>

\* app.invoke(Command(resume=answer), config): the run continues with the
\* pending task of the checkpoint
InvokeResume_from_start(handler, answer) ==
    /\ running' = handler
    /\ null_resume' = <<answer>>
    /\ next_node' = NextNode(app, "START", messages)
    /\ raised' = FALSE
    /\ UNCHANGED <<app, messages, interrupt_q, asked, resume,
                   tool_runs, tool_out, agent_runs, n_inputs,
                   thread_id, checkpoints>>

InvokeResume(handler, answer) ==
    /\ running' = handler
    /\ null_resume' = <<answer>>
    /\ raised' = FALSE
    /\ UNCHANGED <<app, messages, next_node, interrupt_q, asked, resume,
                   tool_runs, tool_out, agent_runs, n_inputs,
                   thread_id, checkpoints>>

\* if user_input: (st.chat_input is disabled while awaiting_decision)
UserInput ==
    /\ app = "stock"
    /\ running = "idle"
    /\ ~awaiting_decision
    /\ n_inputs < MaxInputs
    /\ \E text \in UserTexts :
          /\ chat_history' = Append(chat_history, UserEntry(text))
          /\ InvokeInput("input", text)
    /\ UNCHANGED <<awaiting_decision, pending_response>>
    /\ UNCHANGED <<blogVars, calcVars, concVars>>

\* if st.button("Yes") / if st.button("No"), rendered only
\* if awaiting_decision and pending_response
ClickYes ==
    /\ app = "stock"
    /\ running = "idle"
    /\ awaiting_decision /\ pending_response # <<>>
    /\ InvokeResume("yes", "yes")
    /\ UNCHANGED uiVars
    /\ UNCHANGED <<blogVars, calcVars, concVars>>

ClickNo ==
    /\ app = "stock"
    /\ running = "idle"
    /\ awaiting_decision /\ pending_response # <<>>
    /\ InvokeResume("no", "no")
    /\ UNCHANGED uiVars
    /\ UNCHANGED <<blogVars, calcVars, concVars>>

ClearChat_deletes_thread ==
    /\ app = "stock"
    /\ running = "idle"
    /\ chat_history' = <<>>
    /\ awaiting_decision' = FALSE
    /\ pending_response' = <<>>
    /\ messages' = <<>>
    /\ next_node' = END
    /\ checkpoints' = SelectSeq(checkpoints, LAMBDA c : c.thread_id # thread_id)
    /\ UNCHANGED <<app, running, interrupt_q, asked, resume, null_resume,
                   tool_runs, tool_out, agent_runs, n_inputs, raised, thread_id>>
    /\ UNCHANGED <<blogVars, calcVars, concVars>>

\* if st.button("Clear Chat")
ClearChat ==
    /\ app = "stock"
    /\ running = "idle"
    /\ chat_history' = <<>>
    /\ awaiting_decision' = FALSE
    /\ pending_response' = <<>>
    /\ UNCHANGED graphVars
    /\ UNCHANGED <<blogVars, calcVars, concVars>>

\* a caller of the chatbot graph submits a user message for the thread
ChatInvoke ==
    /\ app = "chatbot"
    /\ running = "idle"
    /\ n_inputs < MaxInputs
    /\ \E text \in UserTexts : InvokeInput("invoke", text)
    /\ UNCHANGED uiVars
    /\ UNCHANGED <<blogVars, calcVars, concVars>>

\* get_threads_in_db(): the thread ids of all checkpoints of the checkpointer
get_threads_in_db == {checkpoints[i].thread_id : i \in DOMAIN checkpoints}

\* a caller of the chatbot graph continues under another thread id: a new
\* one, or one that get_threads_in_db listed; its runs start from the
\* newest checkpoint of that thread
ChatSelectThread ==
    /\ app = "chatbot"
    /\ running = "idle"
    /\ \E t \in ThreadIds \ {thread_id} :
          /\ thread_id' = t
          /\ messages' = checkpointer_get(checkpoints, t).messages
          /\ next_node' = checkpointer_get(checkpoints, t).next_node
    /\ tool_runs' = <<>>
    /\ tool_out' = <<>>
    /\ asked' = <<>>
    /\ raised' = FALSE
    /\ UNCHANGED <<app, running, interrupt_q, resume, null_resume, agent_runs,
                   n_inputs, checkpoints>>
    /\ UNCHANGED uiVars
    /\ UNCHANGED <<blogVars, calcVars, concVars>>

\* the agent node (agent / chat_node) and its conditional edge
AgentStep ==
    /\ running # "idle"
    /\ next_node = AgentNode(app)
    /\ agent_runs < MaxAgentRuns
    /\ \E response \in Responses(app) :
          LET msgs == add_messages(messages, <<response>>)
              next == NextNode(app, AgentNode(app), msgs)
          IN  /\ messages' = msgs
              /\ next_node' = next
              /\ checkpointer_put(thread_id, msgs, next)
              /\ tool_runs' = [i \in DOMAIN response.tool_calls |-> 0]
              /\ IF next = END
                 THEN /\ running' = "idle"
                      /\ HandlerReturns(running, msgs, <<>>)
                 ELSE /\ UNCHANGED running
                      /\ UNCHANGED uiVars
    /\ agent_runs' = agent_runs + 1
    /\ tool_out' = <<>>
    /\ asked' = <<>>
    /\ UNCHANGED <<app, interrupt_q, resume, null_resume, n_inputs, raised,
                   thread_id>>
    /\ UNCHANGED <<blogVars, calcVars, concVars>>

\* the tools node finished: one tool message per call, then its edge
ToolsComplete(outs) ==
    LET msgs == add_messages(messages,
                             [i \in DOMAIN outs |-> ToolMessage(outs[i])])
    IN  /\ messages' = msgs
        /\ next_node' = NextNode(app, "tools", msgs)
        /\ checkpointer_put(thread_id, msgs, next_node')
        /\ resume' = <<>>
        /\ interrupt_q' = <<>>
        /\ UNCHANGED <<running, asked, raised>>
        /\ UNCHANGED uiVars

\* the tools node (ToolNode): every call of the last assistant message is
\* run; an interrupt suspends the run and app.invoke returns, with nothing
\* of this step written to the messages
ToolsStep ==
    /\ running # "idle"
    /\ next_node = "tools"
    /\ LET calls == Last(messages).tool_calls
           values == resume \o null_resume
       IN  \E bk \in BackendChoices(calls) :
              LET outs == ToolOutcomes(calls, bk, values)
              IN  /\ tool_out' = outs
                  /\ tool_runs' = [i \in DOMAIN calls |-> tool_runs[i] + 1]
                  /\ IF \E i \in DOMAIN outs : outs[i].kind = "interrupt"
                     THEN LET q == outs[FirstOfKind(outs, "interrupt")].value
                          IN  /\ interrupt_q' = <<q>>
                              /\ asked' = Append(asked, q)
                              /\ resume' = values
                              /\ running' = "idle"
                              /\ HandlerReturns(running, messages, <<q>>)
                              /\ UNCHANGED <<messages, next_node, raised,
                                             checkpoints>>
                     ELSE IF \E i \in DOMAIN outs : outs[i].kind = "raised"
                     THEN \/ ToolsComplete([i \in DOMAIN outs |-> HandledError(outs[i])])
                          \/ /\ running' = "idle"
                             /\ raised' = TRUE
                             /\ UNCHANGED <<messages, next_node, interrupt_q,
                                            asked, resume, checkpoints>>
                             /\ UNCHANGED uiVars
                     ELSE ToolsComplete(outs)
    /\ null_resume' = <<>>
    /\ UNCHANGED <<app, agent_runs, n_inputs, thread_id>>
    /\ UNCHANGED <<blogVars, calcVars, concVars>>

GraphIdle ==
    /\ messages = <<>>
    /\ next_node = END
    /\ running = "idle"
    /\ interrupt_q = <<>>
    /\ asked = <<>>
    /\ resume = <<>>
    /\ null_resume = <<>>
    /\ tool_runs = <<>>
    /\ tool_out = <<>>
    /\ agent_runs = 0
    /\ n_inputs = 0
    /\ raised = FALSE
    /\ thread_id = "thread_1"
    /\ checkpoints = <<>>
    /\ chat_history = <<>>
    /\ awaiting_decision = FALSE
    /\ pending_response = <<>>

ConcIdle == reqs = <<>>

---------------------------------------------------------------------------
(* Chatbot/main.py: two requests in progress at the same time.  The module *)
(* holds one compiled graph and one SqliteSaver over a connection opened   *)
(* with check_same_thread=False; nothing in it orders two chatbot.invoke   *)
(* calls.  Each run reads the newest checkpoint of its thread once, at its *)
(* start, then works on its own copy of the state and writes a checkpoint  *)
(* after the input and after every step.                                   *)

RequestIds == {1, 2}

RequestText(r) == IF r = 1 THEN "what is 1 + 2" ELSE "what is the date"

\* what llm.invoke(messages) returns in these runs: the final answer, or
\* one call of a tool that returns, or of the tool that can raise
RequestResponses ==
    {AI(<<"final answer">>, <<>>)}
    \cup {AI(<<"">>, <<c>>) : c \in {<<"get_date_time">>, <<"search_web", "news">>}}

NoRequest ==
    [pc |-> "idle", thread_id |-> "", messages |-> <<>>, next_node |-> END,
     agent_runs |-> 0]

\* chatbot.invoke({"messages": [user message]}, config) of request r
ConcInvoke ==
    /\ \E r \in RequestIds, t \in ThreadIds :
          /\ reqs[r].pc = "idle"
          /\ LET saved == checkpointer_get(checkpoints, t)
                 msgs == add_messages(saved.messages, <<Human(RequestText(r))>>)
                 next == NextNode("chatbot", "START", msgs)
             IN  /\ reqs' = [reqs EXCEPT ![r] =
                                [pc |-> "run", thread_id |-> t, messages |-> msgs,
                                 next_node |-> next, agent_runs |-> 0]]
                 /\ checkpointer_put(t, msgs, next)
    /\ UNCHANGED <<app, messages, next_node, running, interrupt_q, asked,
                   resume, null_resume, tool_runs, tool_out, agent_runs,
                   n_inputs, raised, thread_id>>
    /\ UNCHANGED <<blogVars, calcVars, uiVars>>

\* chat_node and its conditional edge, in the run of request r
ConcAgentStep ==
    /\ \E r \in RequestIds, response \in RequestResponses :
          /\ reqs[r].pc = "run"
          /\ reqs[r].next_node = AgentNode("chatbot")
          /\ reqs[r].agent_runs < MaxRequestRuns
          /\ LET msgs == add_messages(reqs[r].messages, <<response>>)
                 next == NextNode("chatbot", AgentNode("chatbot"), msgs)
             IN  /\ reqs' = [reqs EXCEPT ![r] =
                                [pc |-> IF next = END THEN "done" ELSE "run",
                                 thread_id |-> reqs[r].thread_id,
                                 messages |-> msgs, next_node |-> next,
                                 agent_runs |-> reqs[r].agent_runs + 1]]
                 /\ checkpointer_put(reqs[r].thread_id, msgs, next)
    /\ UNCHANGED <<app, messages, next_node, running, interrupt_q, asked,
                   resume, null_resume, tool_runs, tool_out, agent_runs,
                   n_inputs, raised, thread_id>>
    /\ UNCHANGED <<blogVars, calcVars, uiVars>>

\* the tools node and the edge tools -> chat_node, in the run of request r;
\* an exception of a tool that is not turned into a tool message ends the
\* run without a checkpoint of the step
ConcToolsStep ==
    /\ \E r \in RequestIds :
          /\ reqs[r].pc = "run"
          /\ reqs[r].next_node = "tools"
          /\ LET calls == Last(reqs[r].messages).tool_calls
             IN  \E bk \in BackendChoices(calls), handled \in BOOLEAN :
                    LET outs == ToolOutcomes(calls, bk, <<>>)
                        fails == \E i \in DOMAIN outs : outs[i].kind = "raised"
                        msgs == add_messages(reqs[r].messages,
                                    [i \in DOMAIN outs |->
                                        ToolMessage(HandledError(outs[i]))])
                        next == NextNode("chatbot", "tools", msgs)
                    IN  IF fails /\ ~handled
                        THEN /\ reqs' = [reqs EXCEPT ![r].pc = "raised"]
                             /\ UNCHANGED checkpoints
                        ELSE /\ reqs' = [reqs EXCEPT ![r].messages = msgs,
                                                     ![r].next_node = next]
                             /\ checkpointer_put(reqs[r].thread_id, msgs, next)
    /\ UNCHANGED <<app, messages, next_node, running, interrupt_q, asked,
                   resume, null_resume, tool_runs, tool_out, agent_runs,
                   n_inputs, raised, thread_id>>
    /\ UNCHANGED <<blogVars, calcVars, uiVars>>

---------------------------------------------------------------------------
(* Specifications. *)

\* the conversational applications: the stock agent or the chatbot
Init ==
    /\ app \in {"stock", "chatbot"}
    /\ GraphIdle
    /\ BlogIdle
    /\ CalcIdle
    /\ ConcIdle

Next ==
    \/ UserInput
    \/ ClickYes
    \/ ClickNo
    \/ ClearChat
    \/ ChatInvoke
    \/ AgentStep
    \/ ToolsStep

Spec == Init /\ [][Next]_vars

\* the conversational applications, the chatbot's caller moving between
\* thread ids
NextSessions ==
    \/ UserInput
    \/ ClickYes
    \/ ClickNo
    \/ ClearChat
    \/ ChatInvoke
    \/ ChatSelectThread
    \/ AgentStep
    \/ ToolsStep

SpecSessions == Init /\ [][NextSessions]_vars

\* the refinement workflow of the blog agent
InitBlog ==
    /\ BlogInvoked
    /\ app = "none"
    /\ GraphIdle
    /\ CalcIdle
    /\ ConcIdle

NextBlog ==
    \/ create_outline
    \/ create_blog
    \/ score_blog

SpecBlog == InitBlog /\ [][NextBlog]_vars

\* calculator_tool applied to every expression of the bound
InitCalc ==
    /\ CalcInit
    /\ app = "none"
    /\ GraphIdle
    /\ BlogIdle
    /\ ConcIdle

NextCalc == CallCalculator

SpecCalc == InitCalc /\ [][NextCalc]_vars

\* two requests to the chatbot in progress at the same time
InitConc ==
    /\ app = "chatbot"
    /\ GraphIdle
    /\ BlogIdle
    /\ CalcIdle
    /\ reqs = [r \in RequestIds |-> NoRequest]

NextConc ==
    \/ ConcInvoke
    \/ ConcAgentStep
    \/ ConcToolsStep

SpecConc == InitConc /\ [][NextConc]_vars

---------------------------------------------------------------------------
(* Properties. *)

\* the tool calls of the last assistant message (tool_runs and tool_out
\* are indexed by them)
LastCalls ==
    LET ai == {i \in DOMAIN messages : messages[i].type = "ai"}
    IN  IF ai = {} THEN <<>>
        ELSE messages[CHOOSE i \in ai : \A j \in ai : j <= i].tool_calls

IsTrade(call) == call[1] \in {"buy_stocks", "sell_stocks"}

Question(call) ==
    IF call[1] = "buy_stocks"
    THEN buy_question(call[2], call[3], call[4])
    ELSE sell_question(call[2], call[3], call[4])

SuccessTemplate(call) ==
    IF call[1] = "buy_stocks"
    THEN "You bought {} shares of {} for ${}."
    ELSE "You sold {} shares of {} for ${}."

IsSuccess(out) ==
    /\ out.kind = "returned"
    /\ out.value[1] \in {"You bought {} shares of {} for ${}.",
                         "You sold {} shares of {} for ${}."}

IsCancellation(out) ==
    out.kind = "returned" /\ out.value = <<"Transaction cancelled.">>

IsArgumentError(out) ==
    /\ out.kind = "returned"
    /\ out.value \in {<<"Error: Quantity must be positive">>,
                      <<"Error: Total price must be positive">>}

\* C1: every run of the refinement workflow reaches the terminal marker
\* after at most the maximum number of draft/score cycles, whatever the
\* scores: once MaxCycles score steps have run, the router does not send
\* the run back to the draft step.
C1_TerminatesWithinCeiling ==
    n_score >= MaxCycles => bnode # "blog_node"

\* C2 (as claimed): the router returns "optimize" iff the score is below
\* 7.0 and "end" otherwise.
C2_RouterReturnsOptimize ==
    route # "" =>
        /\ (route = "optimize") <=> (bstate["blog_score"] < Threshold)
        /\ (route = "end") <=> (bstate["blog_score"] >= Threshold)

\* C2 (amended): the router returns "optimize blog", the label path_map
\* maps to the draft step, iff the score is below 7.0, and "end" otherwise;
\* a score of exactly 7.0 returns "end" and the run is at END.
C2_RouterThreshold ==
    route # "" =>
        /\ (route = "optimize blog") <=> (bstate["blog_score"] < Threshold)
        /\ (route = "end") <=> (bstate["blog_score"] >= Threshold)
        /\ route = "end" => bnode = "END"
        /\ bstate["blog_score"] = Threshold => bnode = "END"

C2_Witness ==
    /\ route = "end"
    /\ bstate["blog_score"] = Threshold
    /\ n_draft > 1

\* C3: a buy_stocks / sell_stocks call with quantity <= 0 or
\* total_price <= 0 returns an error result and never raises an interrupt:
\* no question asked of the user is that call's question.
C3_InvalidArgsRejected ==
    \A i \in DOMAIN tool_out :
        LET call == LastCalls[i] IN
        (IsTrade(call) /\ (call[3] <= 0 \/ call[4] <= 0)) =>
            /\ IsArgumentError(tool_out[i])
            /\ Question(call) \notin Range(asked)
            /\ interrupt_q # <<Question(call)>>

C3_Witness ==
    \E i \in DOMAIN tool_out :
        /\ LastCalls[i][1] = "sell_stocks"
        /\ LastCalls[i][3] > 0
        /\ LastCalls[i][4] <= 0
        /\ IsArgumentError(tool_out[i])

\* C4: a success message of buy_stocks / sell_stocks is produced only after
\* the run was suspended with that call's question and resumed with "yes";
\* with valid arguments the tool returns no message (success or
\* cancellation) without the suspension.
C4_SuccessOnlyAfterYes ==
    \A i \in DOMAIN tool_out :
        LET call == LastCalls[i]
            out == tool_out[i]
            k == InterruptIndex(LastCalls, i)
        IN  IsTrade(call) =>
              /\ IsSuccess(out) => out.answer = "yes"
              /\ (IsSuccess(out) \/ IsCancellation(out)) =>
                    /\ call[3] > 0 /\ call[4] > 0
                    /\ k <= Len(asked)
                    /\ asked[k] = Question(call)
              /\ (call[3] > 0 /\ call[4] > 0 /\ out.kind = "returned") =>
                    /\ k <= Len(asked)
                    /\ asked[k] = Question(call)

C4_Witness ==
    \E i \in DOMAIN tool_out :
        /\ IsSuccess(tool_out[i])
        /\ LastCalls[i][1] = "buy_stocks"
        /\ Last(messages).type = "tool"

\* C5: the question of a valid buy_stocks / sell_stocks call carries the
\* call's ticker, quantity and price; resumed with "yes" the call returns
\* the confirmation message with the same three values as the question,
\* resumed with "no" it returns the cancellation message.
C5_RoundTrip ==
    \A i \in DOMAIN tool_out :
        LET call == LastCalls[i]
            out == tool_out[i]
            k == InterruptIndex(LastCalls, i)
        IN  (IsTrade(call) /\ call[3] > 0 /\ call[4] > 0) =>
              /\ out.kind = "interrupt" =>
                    SubSeq(out.value, 2, 4) = <<call[3], call[2], call[4]>>
              /\ (out.kind = "returned" /\ out.answer = "yes") =>
                    /\ out.value[1] = SuccessTemplate(call)
                    /\ SubSeq(out.value, 2, 4) = SubSeq(asked[k], 2, 4)
                    /\ SubSeq(asked[k], 2, 4) = <<call[3], call[2], call[4]>>
              /\ (out.kind = "returned" /\ out.answer = "no") =>
                    IsCancellation(out)

C5_Witness ==
    \E i \in DOMAIN tool_out :
        /\ LastCalls[i][1] = "sell_stocks"
        /\ asked = <<sell_question("TSLA", 2, 50)>>
        /\ tool_out[i].answer = "yes"
        /\ tool_out[i].value = <<"You sold {} shares of {} for ${}.", 2, "TSLA", 50>>

\* C6 (as claimed): on resume no tool call that already returned before
\* the suspension is executed again.
C6_NoReturnedCallRunsAgain ==
    \A i \in DOMAIN tool_runs :
        ~CallsInterrupt(LastCalls[i]) => tool_runs[i] <= 1

\* C6 (amended): a resume continues at the suspended tools step with the
\* messages saved at the suspension and runs no agent step again (the
\* agent step runs only after a user message or a tool message); the tools
\* step itself starts over, running every tool call of the pending
\* assistant message again.
C6_ResumeRestartsOnlyToolsStep ==
    [][/\ (running = "idle" /\ running' \in {"yes", "no"}) =>
              /\ next_node' = "tools"
              /\ agent_runs' = agent_runs
              /\ messages' = messages
              /\ messages' = pending_response[1].messages
       /\ agent_runs' # agent_runs =>
              Last(messages).type \in {"human", "tool"}
       /\ (agent_runs' = agent_runs /\ tool_runs' # tool_runs) =>
              /\ next_node = "tools"
              /\ \A i \in DOMAIN LastCalls : tool_runs'[i] = tool_runs[i] + 1
      ]_vars

C6_Witness ==
    /\ app = "stock"
    /\ Len(LastCalls) = 2
    /\ LastCalls[1] = PriceCall
    /\ tool_runs = <<2, 2>>
    /\ tool_out[2].answer = "yes"
    /\ agent_runs = 1

\* C7: for every input with a character outside [0-9+-*/(). ],
\* calculator_tool returns an error result and does not evaluate the input.
C7_RejectsNonArithmetic ==
    (calc.called /\ \E i \in DOMAIN expression : expression[i] \notin ArithmeticChars)
        => (calc.result[1] = "Error in calculation: {}" /\ ~calc.evaluated)

\* C8: in both graphs, after the agent step the tools step is next iff the
\* response carries tool calls, and otherwise the run ends; the tools step
\* runs only for such a response and is followed by the agent step.
C8_ToolDispatchRouting ==
    [][/\ agent_runs' # agent_runs =>
              next_node' = IF Last(messages').tool_calls # <<>>
                           THEN "tools" ELSE END
       /\ (agent_runs' = agent_runs /\ tool_runs' # tool_runs) =>
              /\ next_node = "tools"
              /\ Last(messages).type = "ai"
              /\ Last(messages).tool_calls # <<>>
       /\ (Len(messages') > Len(messages) /\ Last(messages').type = "tool") =>
              next_node' = AgentNode(app)
       /\ (next_node' = END /\ next_node # END) => running' = "idle"
      ]_vars

C8_Witness ==
    /\ app = "chatbot"
    /\ next_node = END
    /\ Len(messages) >= 4
    /\ messages[Len(messages) - 1].type = "tool"
    /\ Last(messages).type = "ai"
    /\ Last(messages).tool_calls = <<>>

\* C9: every tool returns a text result or error text and never raises.
C9_ToolsNeverRaise ==
    \A i \in DOMAIN tool_out : tool_out[i].kind # "raised"

\* C10: whenever the stock agent's workflow is suspended awaiting a
\* confirmation, free-text input is disabled (awaiting_decision) and the
\* Yes / No control is offered (awaiting_decision and pending_response).
C10_SuspendedDisablesInput ==
    (app = "stock" /\ Suspended) =>
        (awaiting_decision /\ pending_response # <<>>)

\* C11: the message sequence of a conversation is append-only: over every
\* step (user submission, agent step, tools step, resume, Clear Chat) the
\* messages before the step are a prefix of the messages after it, so every
\* later state's sequence has every earlier one as a prefix.
C11_MessagesAppendOnly ==
    [][/\ Len(messages) <= Len(messages')
       /\ SubSeq(messages', 1, Len(messages)) = messages]_vars

\* a session in which a submission, an agent step, a resume, the tools step
\* and a second agent step have each extended the messages
C11_Witness ==
    /\ app = "stock"
    /\ running = "idle"
    /\ Len(messages) >= 4
    /\ \E i \in DOMAIN messages : messages[i].type = "tool"
    /\ \E i \in DOMAIN asked : TRUE
    /\ messages[1].type = "human"

\* C12: a pending confirmation is removed only by resolving the suspended
\* workflow with a yes/no answer: over every step that unsets
\* pending_response, the step is the return of app.invoke(Command(resume=...))
\* of the Yes or the No handler.  No other user interaction (a new message,
\* Clear Chat) removes it.
C12_PendingRemovedOnlyByAnswer ==
    [][(pending_response # <<>> /\ pending_response' = <<>>)
          => running \in {"yes", "no"}]_vars

\* what request r added to its thread: its user message and all that its
\* run appended after it
OwnMessages(r) ==
    LET m == reqs[r].messages
        h == CHOOSE i \in DOMAIN m : m[i] = Human(RequestText(r))
    IN  SubSeq(m, h, Len(m))

IsSubSeqOf(part, whole) ==
    \E k \in 0..(Len(whole) - Len(part)) :
       SubSeq(whole, k + 1, k + Len(part)) = part

\* C13: two requests for the same session id that run at the same time are
\* serialized, so no update is lost: once both have completed, the saved
\* messages of the session hold the user message and the responses of both
\* requests.
C13_NoLostUpdate ==
    (/\ \A r \in RequestIds : reqs[r].pc = "done"
     /\ reqs[1].thread_id = reqs[2].thread_id)
       => \A r \in RequestIds :
             IsSubSeqOf(OwnMessages(r),
                        checkpointer_get(checkpoints, reqs[r].thread_id).messages)

IsPrefix(s, t) == Len(s) <= Len(t) /\ SubSeq(t, 1, Len(s)) = s

\* C14: saved workflow state is never implicitly deleted.  Over every step
\* no checkpoint written before is removed or changed; a Clear Chat click
\* of the stock agent leaves the thread id, the checkpointed messages and
\* the pending task of the thread unchanged and resets only chat_history,
\* awaiting_decision and pending_response; and get_threads_in_db returns
\* every thread id under which state was ever saved (the thread of every
\* checkpoint written is returned from then on).
C14_SavedStateNeverDeleted ==
    [][/\ IsPrefix(checkpoints, checkpoints')
       /\ (app = "stock" /\ running = "idle" /\ running' = "idle")
             => /\ UNCHANGED <<thread_id, messages, next_node, interrupt_q,
                               checkpoints>>
                /\ chat_history' = <<>>
                /\ ~awaiting_decision'
                /\ pending_response' = <<>>
       /\ get_threads_in_db \subseteq get_threads_in_db'
       /\ (checkpoints' # checkpoints) => thread_id' \in get_threads_in_db'
       /\ (messages' # <<>>) => thread_id' \in get_threads_in_db']_vars

\* after a conversation with a confirmed trade, Clear Chat has emptied the
\* displayed history while the thread keeps its checkpointed messages
C14_Witness ==
    /\ app = "stock"
    /\ running = "idle"
    /\ chat_history = <<>>
    /\ ~awaiting_decision
    /\ Len(messages) >= 4
    /\ checkpointer_get(checkpoints, thread_id).messages = messages
    /\ get_threads_in_db = {"thread_1"}

\* the two prompts of the draft step
PlainPrompt(outline) ==
    <<"Write a detailed blog based on this outline: {}", outline>>

FeedbackPrompt(feedback, outline) ==
    <<"Improve the blog using this feedback: Feedback: {} Blog outline: {} Rewrite the blog better.",
      feedback, outline>>

\* C15 as stated: the first draft run uses the plain outline prompt, and
\* every draft run that follows a score step builds its prompt from the
\* feedback that score step wrote, whatever the feedback is (the empty
\* string included).  In a state where the draft step has just run, prompt
\* is the draft step's prompt and bstate["feedback"] is what the most recent
\* score step wrote.
C15_DraftUsesLatestFeedback ==
    bnode = "score_node"
       => IF n_score = 0
          THEN prompt = PlainPrompt(bstate["outline"])
          ELSE prompt = FeedbackPrompt(bstate["feedback"], bstate["outline"])

\* C15 as the code has it: a draft run that follows a score step builds its
\* prompt from that step's feedback when the feedback is not the empty
\* string; with the empty string, as in the first run, it uses the plain
\* outline prompt.
C15_DraftUsesNonEmptyFeedback ==
    bnode = "score_node"
       => IF n_score = 0 \/ bstate["feedback"] = ""
          THEN prompt = PlainPrompt(bstate["outline"])
          ELSE prompt = FeedbackPrompt(bstate["feedback"], bstate["outline"])

\* a third draft, written from the feedback of the second score step, which
\* differs from the feedback of the first
C15_Witness ==
    /\ bnode = "score_node"
    /\ n_draft = 3
    /\ n_score = 2
    /\ bstate["feedback"] = "shorten the intro"
    /\ prompt = FeedbackPrompt("shorten the intro", bstate["outline"])

\* C16: the order of the steps of one run.  The outline step runs exactly
\* once and before every other step; every draft step is immediately
\* followed by a score step (the node after a draft is score_node, and the
\* step taken at score_node is the score step); a score step runs only
\* directly after a draft step; the router's result changes only in a score
\* step; and the run reaches the terminal marker only in a score step, with
\* as many score runs as draft runs.
C16_StepOrder ==
    [][/\ (n_outline' # n_outline)
             => (n_outline = 0 /\ n_draft = 0 /\ n_score = 0 /\ n_outline' = 1)
       /\ (n_draft' # n_draft)
             => (n_outline = 1 /\ n_draft = n_score /\ bnode' = "score_node")
       /\ (bnode = "score_node") => (n_score' = n_score + 1)
       /\ (n_score' # n_score) => (n_draft = n_score + 1)
       /\ (route' # route) => (n_score' = n_score + 1)
       /\ (bnode' = "END")
             => (n_score' = n_score + 1 /\ n_score' = n_draft' /\ route' = "end")]_vars

\* a run that ended after two draft / score cycles
C16_Witness ==
    /\ bnode = "END"
    /\ n_outline = 1
    /\ n_draft = 2
    /\ n_score = 2

\* C17 as stated: no step reads a state field before a preceding step (or
\* the initial input) has written it, for every field read by
\* create_outline, create_blog, score_blog and blog_optimizer, the feedback
\* field read by the first draft run included.
C17_NoReadBeforeWrite == unwritten_read = {}

\* C17 as the code has it: the only field read before it is written is
\* feedback, read by the first draft run (through state.get with the
\* default ""); every other read, by any step or by the router, is of a
\* field that the initial input or a preceding step has written.
C17_OnlyFirstDraftReadsUnwritten ==
    unwritten_read = IF bnode = "score_node" /\ n_draft = 1
                     THEN {"feedback"}
                     ELSE {}

\* the second draft run has read outline and the feedback that the first
\* score step wrote
C17_Witness ==
    /\ bnode = "score_node"
    /\ n_draft = 2
    /\ n_score = 1
    /\ {"topic", "outline", "final_blog", "blog_score", "feedback"} = DOMAIN bstate
    /\ unwritten_read = {}

\* the fields of BlogState
BlogFields == {"topic", "outline", "final_blog", "blog_score", "feedback"}

\* the fields whose presence or value a step changed
ChangedFields ==
    {f \in BlogFields :
        \/ (f \in DOMAIN bstate) # (f \in DOMAIN bstate')
        \/ (f \in DOMAIN bstate /\ f \in DOMAIN bstate' /\ bstate[f] # bstate'[f])}

\* C18: each step changes only the fields it owns.  The outline step changes
\* only outline, a draft step only final_blog, a score step only blog_score
\* and feedback; and once the outline step has run, no step changes topic
\* or outline.
C18_StepsWriteOwnFields ==
    [][/\ (n_outline' # n_outline) => ChangedFields \subseteq {"outline"}
       /\ (n_draft' # n_draft) => ChangedFields \subseteq {"final_blog"}
       /\ (n_score' # n_score) => ChangedFields \subseteq {"blog_score", "feedback"}
       /\ (n_outline = 1) => ChangedFields \cap {"topic", "outline"} = {}]_vars

\* a second draft has replaced the first while the score and the feedback
\* of the first score step are still in the state
C18_Witness ==
    /\ bnode = "score_node"
    /\ n_draft = 2
    /\ bstate["final_blog"] = "draft B"
    /\ bstate["blog_score"] = 55
    /\ bstate["feedback"] = "add more examples"
    /\ prompt[1] # "Write a detailed blog based on this outline: {}"

\* C19: whenever the workflow has reached the terminal marker, the final
\* state has blog_score >= 7.0 and outline, final_blog and feedback written;
\* blog_score and feedback are those of the score step that judged the
\* final_blog returned (the last step was the score step, its prompt held
\* the final_blog of the final state, and the router's result for the
\* final state is "end"); so the score indicator of the UI never takes its
\* branch for a final score below 7.
C19_EndState ==
    bnode = "END"
       => /\ {"outline", "final_blog", "blog_score", "feedback"} \subseteq DOMAIN bstate
          /\ bstate["blog_score"] >= Threshold
          /\ prompt = score_prompt(bstate)
          /\ n_score = n_draft
          /\ route = "end"
          /\ blog_optimizer(bstate) = "end"
          /\ quality_indicator(bstate["blog_score"]) # "Acceptable Quality"

\* a run that ended at the boundary score 7.0 after the third draft
C19_Witness ==
    /\ bnode = "END"
    /\ n_draft = 3
    /\ bstate["blog_score"] = Threshold
    /\ quality_indicator(bstate["blog_score"]) = "Good Quality Blog"

\* C20: in the stock agent's session state awaiting_decision is true exactly
\* when pending_response is set, in every state reached by user messages,
\* Yes / No answers and Clear Chat clicks.
C20_AwaitingIffPending == awaiting_decision <=> (pending_response # <<>>)

\* a second confirmation is pending, after the first was answered or
\* cleared: both fields were set, reset and set again
C20_Witness ==
    /\ app = "stock"
    /\ awaiting_decision
    /\ pending_response # <<>>
    /\ n_inputs = 2
    /\ Len(asked) = 1
    /\ Len(chat_history) <= 3

===========================================================================
